---- MODULE Spec2Model ----
(***************************************************************************)
(* Model of scripts/dnp3-gen/dnp3-gen.py: the schema preprocessing and the *)
(* four emitters (generation run), and the behaviour of the C routines the *)
(* decoder template emits for an object of the model (decode run).         *)
(***************************************************************************)
EXTENDS Integers, Sequences, FiniteSets, TLC

(* ------------------------------ bounds --------------------------------- *)
MaxLen == 4            \* longest input buffer of a decode run
MaxCount == 2          \* largest count handed to a record decoder
MaxPackedCount == 9    \* largest count handed to a packed decoder
MaxSchema == 2         \* most object entries in a schema of a generation run
MaxBuilders == 3       \* builders in BUILDERS_LIST of a prscript run
MaxSteps == 2          \* most steps a build still runs when the script finds it

Byte == {0, 2, 3}      \* octet values that occur in input buffers
Starts == {0, 3}       \* start indices handed to a decoder
PrefixCodes == {0, 4, 5}

\* uint32_t arithmetic is taken modulo U32.  The model checker's integers
\* are 32-bit signed, so the word is scaled to 2^30; every narrower width
\* (2^8, 2^16) divides it, so truncation to a narrower field is exact.
U32 == 2^30

RECURSIVE SeqSum(_)
SeqSum(s) == IF s = <<>> THEN 0 ELSE Head(s) + SeqSum(Tail(s))

RECURSIVE SeqCat(_)
SeqCat(s) == IF s = <<>> THEN <<>> ELSE Head(s) \o SeqCat(Tail(s))

Range(s) == {s[i] : i \in 1..Len(s)}

(* --------------------------- schema model ------------------------------ *)
\* A field definition with every key of valid_field_keys; keys the schema
\* leaves out carry the value the templates see for an undefined key.
Fld(t, n) ==
    [type |-> t, name |-> n, width |-> 0, size |-> 0, len_field |-> "",
     len_from_prefix |-> FALSE, fields |-> <<>>, keys |-> {"type", "name"}]

Sub(n, w) == [Fld("uint8", n) EXCEPT !.width = w, !.keys = {"name", "width"}]

Bstr8(subs) == [Fld("bstr8", "") EXCEPT !.fields = subs, !.keys = {"type", "fields"}]

LenFld(t, n, lf, sz, fromPrefix) ==
    [Fld(t, n) EXCEPT !.len_field = lf, !.size = sz,
                      !.len_from_prefix = fromPrefix,
                      !.keys = {"type", "name", "len_field"}
                               \cup (IF sz > 0 THEN {"size"} ELSE {})
                               \cup (IF fromPrefix THEN {"len_from_prefix"} ELSE {})]

\* An object entry of the schema file.  constraints is a sequence of
\* [key, val]; unimplemented is the free-text marker ("" when absent).
Obj(g, v, fs) ==
    [group |-> g, variation |-> v, fields |-> fs, extra_fields |-> <<>>,
     constraints |-> <<>>, packed |-> FALSE, unimplemented |-> "",
     keys |-> {"group", "variation", "fields"}, _track_offset |-> FALSE]

WithExtra(o, ex) == [o EXCEPT !.extra_fields = ex, !.keys = @ \cup {"extra_fields"}]
WithConstraints(o, cs) == [o EXCEPT !.constraints = cs, !.keys = @ \cup {"constraints"}]
Packed(o) == [o EXCEPT !.packed = TRUE, !.keys = @ \cup {"packed"}]
Unimplemented(o) == [o EXCEPT !.unimplemented = "todo", !.keys = @ \cup {"unimplemented"}]
WithKey(o, k) == [o EXCEPT !.keys = @ \cup {k}]

(* ------------------- the model handed to the emitters ------------------ *)
\* Objects of the validated model whose emitted decoders are run.  Each is
\* a shape the schema vocabulary allows: packed bitmaps of width 1 and 2,
\* fixed-width records, bit-field groups, fixed text, and length-prefixed
\* text / byte arrays with the length in a sibling field or from the prefix;
\* constraints on record objects and on a packed object.
ModelObjects ==
    << Packed(Obj(1, 1, << [Fld("uint8", "state") EXCEPT !.width = 1] >>)),
       WithConstraints(Packed(Obj(3, 1, << [Fld("uint8", "state") EXCEPT !.width = 2] >>)),
                       << [key |-> "require_size_prefix", val |-> 1] >>),
       Obj(1, 2, << Fld("uint8", "value") >>),
       Obj(2, 2, << Bstr8(<< Sub("online", 1), Sub("restart", 1),
                             Sub("state", 2), Sub("reserved", 4) >>),
                    Fld("uint16", "timestamp") >>),
       Obj(10, 2, << Bstr8(<< Sub("flags", 7), Sub("state", 1) >>) >>),
       Obj(30, 2, << Fld("int16", "value"), Fld("uint8", "flags") >>),
       Obj(50, 1, << Fld("vstr4", "vendor_code") >>),
       Obj(50, 2, << Fld("uint24", "interval") >>),
       Obj(70, 1, << Fld("uint8", "filename_size"),
                     LenFld("chararray", "filename", "filename_size", 3, FALSE),
                     Fld("uint8", "status_code") >>),
       WithExtra(Obj(70, 4, << Fld("uint8", "status_code"),
                               LenFld("chararray", "optional_text",
                                      "optional_text_len", 3, TRUE) >>),
                 << Fld("uint8", "optional_text_len") >>),
       WithConstraints(
         WithExtra(Obj(70, 5, << Fld("uint16", "file_handle"),
                                 LenFld("bytearray", "file_data",
                                        "file_data_len", 0, TRUE) >>),
                   << Fld("uint8", "file_data_len") >>),
         << [key |-> "require_size_prefix", val |-> 1] >>),
       WithConstraints(
         WithExtra(Obj(70, 6, << LenFld("bytearray", "file_data",
                                        "file_data_len", 0, TRUE) >>),
                   << Fld("uint16", "file_data_len") >>),
         << [key |-> "require_prefix_code", val |-> 5] >>),
       Obj(120, 1, << Fld("uint8", "challenge_data_len"),
                      LenFld("bytearray", "challenge_data", "challenge_data_len", 0, FALSE),
                      Fld("uint8", "mac_value_len"),
                      LenFld("bytearray", "mac_value", "mac_value_len", 0, FALSE) >>) >>

\* preprocess_object marks an object whose field takes its length from the
\* prefix; the decoders run on the objects as preprocess_object returns them.
TrackOffset(o) == \E k \in 1..Len(o.fields) : o.fields[k].len_from_prefix

Objects == [k \in 1..Len(ModelObjects) |->
              [ModelObjects[k] EXCEPT !._track_offset = TrackOffset(ModelObjects[k])]]

UnknownPairs == {<<1, 9>>, <<9, 1>>}
KnownPairs == {<<Objects[k].group, Objects[k].variation>> : k \in 1..Len(Objects)}

(* ------------------------- storage instances --------------------------- *)
NullPtr == [id |-> 0, bytes |-> <<>>]
NullObject == [id |-> 0, vals |-> <<>>]

\* The members of the struct gen_object_structs emits for an object:
\* the fields in order, a bit-field group flattened, then the extra fields.
FlatFields(o) ==
    SeqCat([k \in 1..Len(o.fields) |->
              IF o.fields[k].type = "bstr8" THEN o.fields[k].fields
                                           ELSE << o.fields[k] >>])
    \o o.extra_fields

FieldNamed(o, n) == CHOOSE f \in Range(FlatFields(o)) : f.name = n

\* SCCalloc zero-fills: integers 0, pointers NULL, character arrays all NUL.
ZeroOf(f) ==
    CASE f.type = "bytearray" -> NullPtr
      [] f.type = "chararray" -> [k \in 1..f.size |-> 0]
      [] f.type = "vstr4" -> [k \in 1..5 |-> 0]
      [] OTHER -> 0

Calloc(o, id) ==
    [id |-> id,
     vals |-> [n \in {f.name : f \in Range(FlatFields(o))} |-> ZeroOf(FieldNamed(o, n))]]

\* Modulus of the C type a struct member of the given schema type has.
TypeMod(f) ==
    IF f.width > 0 THEN 2^f.width
    ELSE CASE f.type \in {"uint8", "int8"} -> 256
           [] f.type \in {"uint16", "int16"} -> 65536
           [] OTHER -> U32

(* ------------------------------ state ---------------------------------- *)
VARIABLES
    \* decode run: DNP3DecodeObject(group, variation, buf, len, prefix_code,
    \* start, count, points) and the routine it selects
    pc,           \* position in the emitted code
    group, variation,
    buf,          \* the bytes the caller's buffer holds
    pos,          \* how far *buf has advanced
    len,          \* *len (uint32_t)
    prefix_code, start,
    count,        \* the count parameter, decremented by the routine
    points,       \* the output point list
    sel,          \* index in Objects of the selected case, 0 for default
    object,       \* the local "object" pointer of the routine
    prefix, index, offset,
    fi,           \* next field of the record being read
    octet, i, j, bytes,   \* locals of the packed routine
    rc,           \* return value of the per-object routine
    signal,       \* return value of DNP3DecodeObject
    heap,         \* allocations not yet freed
    freed,        \* ids handed to SCFree, in order
    nextId,
    ub,           \* undefined behaviour the run has executed
    args,         \* the arguments of the call, as passed
    fp,           \* points of the list the caller has released
    \* generation run: main()
    gpc, schema, gi, objects, files, exit_status,
    \* bit-field extraction of one octet
    bpc, bfield, boctet, bk, bvals,
    \* qa/prscript.py: the builds on the buildbot and the script's globals
    ppc,          \* position in the script
    found,        \* what FindBuild answers for each builder
    running,      \* steps a build still has to run (currentStep while > 0)
    successful,   \* whether the text of the finished build says successful
    bi,           \* position of the loop over BUILDERS_LIST
    buildids,     \* builders in the buildids dictionary
    waited,       \* builders the final loop has gone through
    build,        \* the loop variable of the final loop
    res, status

decvars == << pc, group, variation, buf, pos, len, prefix_code, start, count,
              points, sel, object, prefix, index, offset, fi, octet, i, j,
              bytes, rc, signal, heap, freed, nextId, ub, args, fp >>
genvars == << gpc, schema, gi, objects, files, exit_status >>
bitvars == << bpc, bfield, boctet, bk, bvals >>
prvars == << ppc, found, running, successful, bi, buildids, waited, build, res, status >>
vars == << decvars, genvars, bitvars, prvars >>

DecIdle ==
    /\ pc = "idle" /\ group = 0 /\ variation = 0 /\ buf = <<>> /\ pos = 0
    /\ len = 0 /\ prefix_code = 0 /\ start = 0 /\ count = 0 /\ points = <<>>
    /\ sel = 0 /\ object = NullObject /\ prefix = 0 /\ index = 0 /\ offset = 0
    /\ fi = 0 /\ octet = 0 /\ i = 0 /\ j = 0 /\ bytes = 0 /\ rc = 0
    /\ signal = "none" /\ heap = {} /\ freed = <<>> /\ nextId = 1 /\ ub = {}
    /\ args = [count |-> 0, len |-> 0] /\ fp = 0

GenIdle ==
    /\ gpc = "idle" /\ schema = <<>> /\ gi = 0 /\ objects = <<>>
    /\ files = <<>> /\ exit_status = -1

BitIdle ==
    /\ bpc = "idle" /\ bfield = Bstr8(<<>>) /\ boctet = 0 /\ bk = 0 /\ bvals = <<>>

PrIdle ==
    /\ ppc = "idle" /\ found = <<>> /\ running = <<>> /\ successful = <<>>
    /\ bi = 0 /\ buildids = {} /\ waited = {} /\ build = "" /\ res = 0 /\ status = 0

(* ----------------------- cursor reads (helpers) ------------------------ *)
Buffers == UNION {[1..n -> Byte] : n \in 0..MaxLen}

\* A byte read from past the end of the caller's buffer is whatever memory
\* holds there.  Where its value only ends up as data of a point it is kept
\* as the indeterminate value Indet; where the program goes on to compute
\* with it (a length, a size prefix) every value is a possible outcome.
Indet == -1

BulkFetch(n) == [k \in 1..n |-> IF pos + k <= Len(buf) THEN buf[pos + k] ELSE Indet]

FetchSet(n, computedWith) ==
    IF pos + n <= Len(buf) \/ ~computedWith
    THEN {BulkFetch(n)}
    ELSE {s \in [1..n -> Byte] : \A k \in 1..n : pos + k <= Len(buf) => s[k] = buf[pos + k]}

RECURSIVE LE(_)
LE(bs) == IF bs = <<>> THEN 0 ELSE Head(bs) + 256 * LE(Tail(bs))

\* Width in bytes of the DNP3ReadUintN helper a fixed-width type is read with.
FixedWidth(t) ==
    CASE t = "uint8" -> 1
      [] t \in {"int16", "uint16"} -> 2
      [] t = "uint24" -> 3
      [] t \in {"int32", "uint32", "flt32"} -> 4
      [] t = "dnp3time" -> 6
      [] t \in {"uint64", "flt64"} -> 8

FixedTypes == {"int16", "int32", "uint8", "uint16", "uint24", "uint32",
               "uint64", "flt32", "flt64", "dnp3time"}

\* The value a little-endian read stores; a signed member reinterprets the
\* bit pattern.  Values wider than four bytes are kept as their bytes.
Stored(t, bs) ==
    IF Indet \in Range(bs) THEN Indet
    ELSE IF Len(bs) > 4 THEN bs
    ELSE IF t = "int16" /\ LE(bs) >= 32768 THEN LE(bs) - 65536
    ELSE LE(bs)

\* DNP3ReadPrefix: the prefix codes 1..3 carry an index and 4..6 a size,
\* of one, two and four bytes; any other code carries no prefix.
PrefixWidth(code) ==
    CASE code \in {1, 4} -> 1
      [] code \in {2, 5} -> 2
      [] code \in {3, 6} -> 4
      [] OTHER -> 0

DNP3PrefixIsSize(code) == code \in {4, 5, 6}

(* ------------------------ decode run: dispatch -------------------------- *)
inputs == << group, variation, buf, prefix_code, start, args >>
pklocals == << octet, i, j, bytes >>
genbit == << genvars, bitvars, prvars >>

Cur == Objects[sel]

CaseOf(g, v) ==
    IF \E k \in 1..Len(Objects) : Objects[k].group = g /\ Objects[k].variation = v
    THEN CHOOSE k \in 1..Len(Objects) : Objects[k].group = g /\ Objects[k].variation = v
    ELSE 0

IsPackedPair(p) ==
    \E k \in 1..Len(Objects) :
        Objects[k].group = p[1] /\ Objects[k].variation = p[2] /\ Objects[k].packed

DecInit ==
    /\ GenIdle /\ BitIdle /\ PrIdle
    /\ \E p \in KnownPairs \cup UnknownPairs, b \in Buffers, c \in PrefixCodes,
          s \in Starts, n \in 0..(IF MaxCount > MaxPackedCount THEN MaxCount ELSE MaxPackedCount) :
        /\ n <= (IF IsPackedPair(p) THEN MaxPackedCount ELSE MaxCount)
        /\ group = p[1] /\ variation = p[2]
        /\ buf = b /\ len = Len(b) /\ pos = 0
        /\ prefix_code = c /\ start = s /\ count = n
        /\ args = [count |-> n, len |-> Len(b)]
    /\ pc = "dispatch"
    /\ points = <<>> /\ sel = 0 /\ object = NullObject /\ prefix = 0
    /\ index = 0 /\ offset = 0 /\ fi = 0 /\ octet = 0 /\ i = 0 /\ j = 0
    /\ bytes = 0 /\ rc = 0 /\ signal = "none" /\ heap = {} /\ freed = <<>>
    /\ nextId = 1 /\ ub = {} /\ fp = 0

\* The return statement with its two arms exchanged.
ReturnSignalSwapped(r) == IF r # 0 THEN "malformed" ELSE "ok"

\* return rc ? 0 : DNP3_DECODER_EVENT_MALFORMED ("ok" stands for 0)
ReturnSignal(r) == IF r # 0 THEN "ok" ELSE "malformed"

\* The switch of DNP3DecodeObject: the case of the pair, or the default.
DNP3DecodeObject ==
    /\ pc = "dispatch"
    /\ sel' = CaseOf(group, variation)
    /\ IF CaseOf(group, variation) = 0
       THEN /\ signal' = "unknown_object"
            /\ pc' = "done"
       ELSE /\ signal' = signal
            /\ pc' = IF Objects[CaseOf(group, variation)].packed
                     THEN "pk_entry" ELSE "rec_entry"
    /\ UNCHANGED << inputs, pos, len, count, points, object, prefix, index,
                    offset, fi, pklocals, rc, heap, freed, nextId, ub, fp, genbit >>

DecodeReturn ==
    /\ pc = "return"
    /\ signal' = ReturnSignal(rc)
    /\ pc' = "done"
    /\ UNCHANGED << inputs, pos, len, count, points, sel, object, prefix, index,
                    offset, fi, pklocals, rc, heap, freed, nextId, ub, fp, genbit >>

(* --------------------- decode run: record strategy ---------------------- *)
ConstraintsHold(o, code) ==
    \A k \in 1..Len(o.constraints) :
        /\ o.constraints[k].key = "require_size_prefix" => DNP3PrefixIsSize(code)
        /\ o.constraints[k].key = "require_prefix_code" => code = o.constraints[k].val

RecEntry ==
    /\ pc = "rec_entry"
    /\ object' = NullObject /\ prefix' = 0 /\ index' = start
    /\ pc' = IF ConstraintsHold(Cur, prefix_code) THEN "rec_loop" ELSE "rec_error"
    /\ UNCHANGED << inputs, pos, len, count, points, sel, offset, fi, pklocals,
                    rc, signal, heap, freed, nextId, ub, fp, genbit >>

\* while (count--) { object = SCCalloc(1, sizeof(*object)); ...
RecLoop ==
    /\ pc = "rec_loop"
    /\ count' = (count - 1) % U32
    /\ IF count = 0
       THEN /\ rc' = 1 /\ pc' = "return"
            /\ UNCHANGED << object, heap, nextId >>
       ELSE /\ rc' = rc
            /\ \E ok \in BOOLEAN :
                 IF ok THEN /\ object' = Calloc(Cur, nextId)
                            /\ heap' = heap \cup {nextId}
                            /\ nextId' = nextId + 1
                            /\ pc' = "rec_prefix"
                       ELSE /\ pc' = "rec_error"
                            /\ UNCHANGED << object, heap, nextId >>
    /\ UNCHANGED << inputs, pos, len, points, sel, prefix, index, offset, fi,
                    pklocals, signal, freed, ub, fp, genbit >>

AfterField == IF fi >= Len(Cur.fields) THEN "rec_add" ELSE "rec_field"

RecReadPrefix ==
    /\ pc = "rec_prefix"
    /\ LET w == PrefixWidth(prefix_code) IN
       IF len < w
       THEN /\ pc' = "rec_error"
            /\ UNCHANGED << pos, len, prefix, offset, fi, ub >>
       ELSE \E bs \in FetchSet(w, Cur._track_offset) :
            /\ prefix' = IF w = 0 THEN prefix ELSE Stored("uint32", bs)
            /\ pos' = pos + w /\ len' = len - w
            /\ offset' = IF Cur._track_offset THEN len - w ELSE offset
            /\ ub' = IF pos + w > Len(buf) THEN ub \cup {"overread"} ELSE ub
            /\ fi' = 1
            /\ pc' = IF Len(Cur.fields) = 0 THEN "rec_add" ELSE "rec_field"
    /\ UNCHANGED << inputs, count, points, sel, object, index, pklocals, rc,
                    signal, heap, freed, nextId, fp, genbit >>

\* A member some later field reads its runtime length from.
IsLenField(o, n) == \E k \in 1..Len(o.fields) : o.fields[k].len_field = n

RecReadFixed ==
    /\ pc = "rec_field"
    /\ Cur.fields[fi].type \in FixedTypes
    /\ LET f == Cur.fields[fi]
           w == FixedWidth(f.type) IN
       IF len < w
       THEN /\ pc' = "rec_error"
            /\ UNCHANGED << pos, len, object, fi, ub >>
       ELSE \E bs \in FetchSet(w, IsLenField(Cur, f.name)) :
            /\ object' = [object EXCEPT !.vals[f.name] = Stored(f.type, bs)]
            /\ pos' = pos + w /\ len' = len - w
            /\ ub' = IF pos + w > Len(buf) THEN ub \cup {"overread"} ELSE ub
            /\ fi' = fi + 1
            /\ pc' = AfterField
    /\ UNCHANGED << inputs, count, points, sel, prefix, index, offset, pklocals,
                    rc, signal, heap, freed, nextId, fp, genbit >>

RecReadVstr4 ==
    /\ pc = "rec_field"
    /\ Cur.fields[fi].type = "vstr4"
    /\ LET f == Cur.fields[fi] IN
       IF len < 4
       THEN /\ pc' = "rec_error"
            /\ UNCHANGED << pos, len, object, fi, ub >>
       ELSE /\ object' = [object EXCEPT !.vals[f.name] = BulkFetch(4) \o << 0 >>]
            /\ pos' = pos + 4 /\ len' = len - 4
            /\ ub' = IF pos + 4 > Len(buf) THEN ub \cup {"overread"} ELSE ub
            /\ fi' = fi + 1
            /\ pc' = AfterField
    /\ UNCHANGED << inputs, count, points, sel, prefix, index, offset, pklocals,
                    rc, signal, heap, freed, nextId, fp, genbit >>

\* object->len_field = prefix - (offset - *len), in uint32_t arithmetic,
\* converted to the type of the len_field member.
LenFromPrefix(pfx, off, ln, lf) == ((pfx - ((off - ln) % U32)) % U32) % TypeMod(lf)

WithRuntimeLen(o, f) ==
    IF f.len_from_prefix
    THEN [o EXCEPT !.vals[f.len_field] =
                       LenFromPrefix(prefix, offset, len, FieldNamed(Cur, f.len_field))]
    ELSE o

RecReadByteArray ==
    /\ pc = "rec_field"
    /\ Cur.fields[fi].type = "bytearray"
    /\ LET f == Cur.fields[fi]
           o1 == WithRuntimeLen(object, f)
           n == o1.vals[f.len_field] IN
       IF n > 0
       THEN IF len < n
            THEN /\ object' = o1 /\ pc' = "rec_error"
                 /\ UNCHANGED << pos, len, fi, heap, nextId, ub >>
            ELSE \E ok \in BOOLEAN :
                 IF ok
                 THEN /\ object' = [o1 EXCEPT !.vals[f.name] =
                                       [id |-> nextId, bytes |-> BulkFetch(n)]]
                      /\ heap' = heap \cup {nextId}
                      /\ nextId' = nextId + 1
                      /\ pos' = pos + n /\ len' = len - n
                      /\ ub' = IF pos + n > Len(buf) THEN ub \cup {"overread"} ELSE ub
                      /\ fi' = fi + 1
                      /\ pc' = AfterField
                 ELSE /\ object' = o1 /\ pc' = "rec_error"
                      /\ UNCHANGED << pos, len, fi, heap, nextId, ub >>
       ELSE /\ object' = o1
            /\ fi' = fi + 1
            /\ pc' = AfterField
            /\ UNCHANGED << pos, len, heap, nextId, ub >>
    /\ UNCHANGED << inputs, count, points, sel, prefix, index, offset, pklocals,
                    rc, signal, freed, fp, genbit >>

\* What memcpy(object->name, *buf, n) and object->name[n] = '\0' do outside
\* the source buffer and outside the char name[size] member.
CharArrayUB(f, n) ==
    (IF n > 0 /\ pos + n > Len(buf) THEN {"overread"} ELSE {})
    \cup (IF n >= f.size THEN {"overwrite"} ELSE {})

CharArrayStore(old, f, n) ==
    [k \in 1..f.size |->
        IF k <= n THEN BulkFetch(n)[k] ELSE IF k = n + 1 THEN 0 ELSE old[k]]

RecReadCharArray ==
    /\ pc = "rec_field"
    /\ Cur.fields[fi].type = "chararray"
    /\ LET f == Cur.fields[fi]
           o1 == WithRuntimeLen(object, f)
           n == o1.vals[f.len_field] IN
       /\ object' = [o1 EXCEPT !.vals[f.name] = CharArrayStore(@, f, n)]
       /\ pos' = IF n > 0 THEN pos + n ELSE pos
       /\ len' = IF n > 0 THEN (len - n) % U32 ELSE len
       /\ ub' = ub \cup CharArrayUB(f, n)
       /\ fi' = fi + 1
       \* once the copy has left its buffers the run may fault or go on
       /\ \E fault \in BOOLEAN :
            pc' = IF fault /\ CharArrayUB(f, n) # {} THEN "crashed" ELSE AfterField
    /\ UNCHANGED << inputs, count, points, sel, prefix, index, offset, pklocals,
                    rc, signal, heap, freed, nextId, fp, genbit >>

\* (octet >> shift) & mask, with the mask the template picks for the width.
Mask(w) ==
    CASE w = 1 -> 1
      [] w = 2 -> 3
      [] w = 4 -> 15
      [] w = 7 -> 127

Extract(oct, shift, w) ==
    IF oct = Indet THEN Indet ELSE (oct \div (2^shift)) % (Mask(w) + 1)

\* The shift when the assignment inside the loop does not reach the next
\* iteration.
NextShiftScoped(shift, w) == shift

\* {% set shift = shift + field.width %}
NextShift(shift, w) == shift + w

\* The assignments the bstr8 template renders for a group, in order: one per
\* subfield, with the shift the template has reached ({% set shift = 0 %}
\* before the first).
RECURSIVE Bstr8Render(_, _)
Bstr8Render(subs, shift) ==
    IF subs = <<>> THEN <<>>
    ELSE << [name |-> Head(subs).name, shift |-> shift, width |-> Head(subs).width] >>
         \o Bstr8Render(Tail(subs), NextShift(shift, Head(subs).width))

ShiftOf(subs, k) == Bstr8Render(subs, 0)[k].shift

Bstr8Store(o, subs, oct) ==
    [o EXCEPT !.vals = [n \in DOMAIN o.vals |->
        IF \E k \in 1..Len(subs) : subs[k].name = n
        THEN LET k == CHOOSE k \in 1..Len(subs) : subs[k].name = n
             IN Extract(oct, ShiftOf(subs, k), subs[k].width)
        ELSE o.vals[n]]]

RecReadBstr8 ==
    /\ pc = "rec_field"
    /\ Cur.fields[fi].type = "bstr8"
    /\ LET f == Cur.fields[fi] IN
       IF len < 1
       THEN /\ pc' = "rec_error"
            /\ UNCHANGED << pos, len, object, fi, ub >>
       ELSE \E bs \in FetchSet(1, FALSE) :
            /\ object' = Bstr8Store(object, f.fields, bs[1])
            /\ pos' = pos + 1 /\ len' = len - 1
            /\ ub' = IF pos + 1 > Len(buf) THEN ub \cup {"overread"} ELSE ub
            /\ fi' = fi + 1
            /\ pc' = AfterField
    /\ UNCHANGED << inputs, count, points, sel, prefix, index, offset, pklocals,
                    rc, signal, heap, freed, nextId, fp, genbit >>

Point(o, idx, code, pfx) == [data |-> o, index |-> idx, prefix_code |-> code, prefix |-> pfx]

\* if (!DNP3AddPoint(points, object, index, prefix_code, prefix)) goto error;
\* object = NULL; index++;
RecAddPoint ==
    /\ pc = "rec_add"
    /\ \E ok \in BOOLEAN :
         IF ok THEN /\ points' = Append(points, Point(object, index, prefix_code, prefix))
                    /\ object' = NullObject
                    /\ index' = (index + 1) % U32
                    /\ pc' = "rec_loop"
               ELSE /\ pc' = "rec_error"
                    /\ UNCHANGED << points, object, index >>
    /\ UNCHANGED << inputs, pos, len, count, sel, prefix, offset, fi, pklocals,
                    rc, signal, heap, freed, nextId, ub, fp, genbit >>

\* error: if (object != NULL) { SCFree(object); } return 0;
RecError ==
    /\ pc = "rec_error"
    /\ IF object.id # 0
       THEN /\ heap' = heap \ {object.id}
            /\ freed' = Append(freed, object.id)
       ELSE UNCHANGED << heap, freed >>
    /\ rc' = 0
    /\ pc' = "return"
    /\ UNCHANGED << inputs, pos, len, count, points, sel, object, prefix, index,
                    offset, fi, pklocals, signal, nextId, ub, fp, genbit >>

(* --------------------- decode run: packed strategy ---------------------- *)
\* int bytes = (count / 8) + 1; ... DNP3ReadPrefix
PkEntry ==
    /\ pc = "pk_entry"
    /\ object' = NullObject /\ index' = start
    /\ bytes' = (count \div 8) + 1
    /\ LET w == PrefixWidth(prefix_code) IN
       IF len < w
       THEN /\ pc' = "pk_error"
            /\ prefix' = 0
            /\ UNCHANGED << pos, len, i >>
       ELSE \E bs \in FetchSet(w, FALSE) :
            /\ prefix' = IF w = 0 THEN 0 ELSE Stored("uint32", bs)
            /\ pos' = pos + w /\ len' = len - w
            /\ i' = 0
            /\ pc' = "pk_byte"
    /\ UNCHANGED << inputs, count, points, sel, offset, fi, octet, j, rc, signal,
                    heap, freed, nextId, ub, fp, genbit >>

\* for (int i = 0; i < bytes; i++) { if (!DNP3ReadUint8(buf, len, &octet)) ...
PkByte ==
    /\ pc = "pk_byte"
    /\ IF i < bytes
       THEN IF len < 1
            THEN /\ pc' = "pk_error"
                 /\ UNCHANGED << pos, len, octet, j, rc >>
            ELSE \E bs \in FetchSet(1, FALSE) :
                 /\ octet' = bs[1]
                 /\ pos' = pos + 1 /\ len' = len - 1
                 /\ j' = 0
                 /\ rc' = rc
                 /\ pc' = "pk_point"
       ELSE /\ rc' = 1
            /\ pc' = "return"
            /\ UNCHANGED << pos, len, octet, j >>
    /\ UNCHANGED << inputs, count, points, sel, object, prefix, index, offset, fi,
                    i, bytes, signal, heap, freed, nextId, ub, fp, genbit >>

\* The mask the packed template emits for fields[0].width.
PackedMask(w) ==
    CASE w = 1 -> 1
      [] w = 2 -> 3

PackedValue(oct, shift, w) == (oct \div (2^shift)) % (PackedMask(w) + 1)

\* for (int j = 0; j < 8 && count; j = j + width) { one point }
PkPoint ==
    /\ pc = "pk_point"
    /\ LET f == Cur.fields[1] IN
       IF j < 8 /\ count # 0
       THEN \E okAlloc \in BOOLEAN, okAdd \in BOOLEAN :
            LET o == [Calloc(Cur, nextId) EXCEPT
                         !.vals[f.name] = PackedValue(octet, j, f.width)] IN
            IF ~okAlloc
            THEN /\ pc' = "pk_error"
                 /\ UNCHANGED << count, points, object, index, i, j, heap, nextId >>
            ELSE IF ~okAdd
            THEN /\ object' = o
                 /\ heap' = heap \cup {nextId}
                 /\ nextId' = nextId + 1
                 /\ pc' = "pk_error"
                 /\ UNCHANGED << count, points, index, i, j >>
            ELSE /\ points' = Append(points, Point(o, index, prefix_code, prefix))
                 /\ heap' = heap \cup {nextId}
                 /\ nextId' = nextId + 1
                 /\ object' = NullObject
                 /\ count' = count - 1
                 /\ index' = index + 1
                 /\ j' = j + f.width
                 /\ pc' = "pk_point"
                 /\ i' = i
       ELSE /\ i' = i + 1
            /\ pc' = "pk_byte"
            /\ UNCHANGED << count, points, object, index, j, heap, nextId >>
    /\ UNCHANGED << inputs, pos, len, sel, prefix, offset, fi, octet, bytes, rc,
                    signal, freed, ub, fp, genbit >>

\* error: if (object != NULL) { SCFree(object); } return 0;
PkError ==
    /\ pc = "pk_error"
    /\ IF object.id # 0
       THEN /\ heap' = heap \ {object.id}
            /\ freed' = Append(freed, object.id)
       ELSE UNCHANGED << heap, freed >>
    /\ rc' = 0
    /\ pc' = "return"
    /\ UNCHANGED << inputs, pos, len, count, points, sel, object, prefix, index,
                    offset, fi, pklocals, signal, nextId, ub, fp, genbit >>

(* ------------------------ decode run: release -------------------------- *)
\* has_freeable_types(fields)
has_freeable_types(fs) == \E k \in 1..Len(fs) : fs[k].type \in {"bytearray"}

\* The statements of the case DNP3FreeObjectPoint has for an object: one
\* guarded SCFree per bytearray field, in field order; no case is rendered
\* for an object without freeable types.
FreeCaseEmpty(o) == <<>>

FreeCase(o) ==
    IF has_freeable_types(o.fields)
    THEN LET isBA(f) == f.type = "bytearray"
         IN [k \in 1..Len(SelectSeq(o.fields, isBA)) |-> SelectSeq(o.fields, isBA)[k].name]
    ELSE <<>>

\* The ids one call hands to SCFree, in order: each non-NULL member of the
\* case, then the point itself (SCFree(point) after the switch).
RECURSIVE CaseFrees(_, _)
CaseFrees(names, data) ==
    IF names = <<>> THEN <<>>
    ELSE (IF data.vals[Head(names)].id # 0 THEN << data.vals[Head(names)].id >> ELSE <<>>)
         \o CaseFrees(Tail(names), data)

\* DNP3FreeObjectPoint(group, variation, point), called by the owner of the
\* point list on its next point once DNP3DecodeObject has returned.
DNP3FreeObjectPoint ==
    /\ pc = "done"
    /\ fp < Len(points)
    /\ LET data == points[fp + 1].data
           ids == CaseFrees(FreeCase(Cur), data) \o << data.id >> IN
       /\ freed' = freed \o ids
       /\ heap' = heap \ Range(ids)
       /\ ub' = IF Range(ids) \subseteq heap /\ Cardinality(Range(ids)) = Len(ids)
                THEN ub ELSE ub \cup {"doublefree"}
    /\ fp' = fp + 1
    /\ UNCHANGED << inputs, pos, len, count, points, sel, object, prefix, index,
                    offset, fi, pklocals, rc, signal, nextId, pc, genbit >>

DecNext ==
    \/ DNP3DecodeObject \/ DecodeReturn \/ DNP3FreeObjectPoint
    \/ RecEntry \/ RecLoop \/ RecReadPrefix \/ RecReadFixed \/ RecReadVstr4
    \/ RecReadByteArray \/ RecReadCharArray \/ RecReadBstr8 \/ RecAddPoint
    \/ RecError
    \/ PkEntry \/ PkByte \/ PkPoint \/ PkError

Spec == DecInit /\ [][DecNext]_vars

(* --------------------------- generation run ----------------------------- *)
valid_keys == {"group", "variation", "constraints", "extra_fields", "fields", "packed"}

valid_field_keys == {"type", "name", "width", "len_from_prefix", "len_field", "fields", "size"}

\* The loop of preprocess_object over obj["fields"], from field k on:
\* "exit" for sys.exit(1), "assert" for a failed assert, "track" when a field
\* with len_from_prefix ends the loop, "ok" when the loop runs to its end.
RECURSIVE FieldScan(_, _)
FieldScan(o, k) ==
    IF k > Len(o.fields) THEN "ok"
    ELSE IF ~(o.fields[k].keys \subseteq valid_field_keys) THEN "exit"
    ELSE IF "len_from_prefix" \in o.fields[k].keys /\ o.fields[k].len_from_prefix THEN "track"
    ELSE IF o.fields[k].type = "bstr8"
            /\ SeqSum([m \in 1..Len(o.fields[k].fields) |-> o.fields[k].fields[m].width]) # 8
         THEN "assert"
    ELSE FieldScan(o, k + 1)

preprocess_object(o) ==
    IF "unimplemented" \in o.keys THEN "none"
    ELSE IF ~(o.keys \subseteq valid_keys) THEN "exit"
    ELSE FieldScan(o, 1)

is_integer_type(t) ==
    t \in {"uint64", "uint32", "uint24", "uint16", "uint8",
           "int64", "int32", "int16", "int8", "dnp3time"}

PairOf(o) == << o.group, o.variation >>

\* Types the struct template has a branch for (a bstr8 group is flattened).
StructTypes == {"int16", "int32", "uint8", "uint16", "uint24", "uint32", "uint64",
                "flt32", "flt64", "dnp3time", "bytearray", "vstr4", "chararray"}

StructsRaise(objs) ==
    \E k \in 1..Len(objs) :
        \/ \E m \in 1..Len(objs[k].fields) :
              objs[k].fields[m].type # "bstr8" /\ objs[k].fields[m].type \notin StructTypes
        \/ \E m \in 1..Len(objs[k].extra_fields) :
              objs[k].extra_fields[m].type \notin {"uint8", "uint16", "uint32"}

\* Only the record template raises; the packed template emits an #error
\* line for a width it does not handle and renders on.
DecodersRaise(objs) ==
    \E k \in 1..Len(objs) :
        /\ ~objs[k].packed
        /\ \/ \E m \in 1..Len(objs[k].constraints) :
                 objs[k].constraints[m].key \notin {"require_size_prefix", "require_prefix_code"}
           \/ \E m \in 1..Len(objs[k].fields) :
                 LET f == objs[k].fields[m] IN
                 IF f.type = "bstr8"
                 THEN \E n \in 1..Len(f.fields) : f.fields[n].width \notin {1, 2, 4, 7}
                 ELSE f.type \notin (FixedTypes \cup {"vstr4", "bytearray", "chararray"})

BindingRaise(objs) ==
    \E k \in 1..Len(objs) : \E m \in 1..Len(objs[k].fields) :
        LET t == objs[k].fields[m].type IN
        ~(is_integer_type(t) \/ t \in {"flt32", "flt64", "chararray", "vstr4", "bytearray", "bstr8"})

\* What gen_object_decoders renders: one routine per object, a case in
\* DNP3FreeObjectPoint per object with freeable fields, a case in
\* DNP3DecodeObject per object.
IsFreeable(o) == has_freeable_types(o.fields)

DecodersText(objs) ==
    [routines |-> [k \in 1..Len(objs) |-> PairOf(objs[k])],
     free_cases |-> [k \in 1..Len(SelectSeq(objs, IsFreeable)) |->
                        PairOf(SelectSeq(objs, IsFreeable)[k])],
     decode_cases |-> [k \in 1..Len(objs) |-> PairOf(objs[k])]]

StructsText(objs) == [structs |-> [k \in 1..Len(objs) |-> PairOf(objs[k])]]

\* The key each backend emits for a field: the literal text the template
\* puts before the field name, and the field name.
LuaKey(f) == [lit |-> "", name |-> f.name]

LuaKeys(o) ==
    SeqCat([m \in 1..Len(o.fields) |->
              IF o.fields[m].type = "bstr8"
              THEN [n \in 1..Len(o.fields[m].fields) |-> LuaKey(o.fields[m].fields[n])]
              ELSE << LuaKey(o.fields[m]) >>])

JsonKey(f) ==
    [lit |-> IF f.type \in {"bytearray", "vstr4"} THEN "data->" ELSE "", name |-> f.name]

JsonKeys(o) ==
    SeqCat([m \in 1..Len(o.fields) |->
              IF o.fields[m].type = "bstr8"
              THEN [n \in 1..Len(o.fields[m].fields) |-> JsonKey(o.fields[m].fields[n])]
              ELSE << JsonKey(o.fields[m]) >>])

LuaText(objs) == [cases |-> [k \in 1..Len(objs) |-> [pair |-> PairOf(objs[k]), keys |-> LuaKeys(objs[k])]]]
JsonText(objs) == [cases |-> [k \in 1..Len(objs) |-> [pair |-> PairOf(objs[k]), keys |-> JsonKeys(objs[k])]]]

Targets == {"app-layer-dnp3-objects.h", "app-layer-dnp3-objects.c",
            "util-lua-dnp3-objects.c", "output-json-dnp3-objects.c"}

\* The content a target file has before the run touches it.
Original == [original |-> TRUE, text |-> <<>>]
Written(t) == [original |-> FALSE, text |-> t]


\* Object entries a schema file of a generation run is made of.
SchemaEntries ==
    { Obj(1, 2, << Fld("uint8", "value") >>),
      Packed(Obj(1, 1, << [Fld("uint8", "state") EXCEPT !.width = 1,
                                                        !.keys = {"type", "name", "width"}] >>)),
      Unimplemented(Obj(1, 3, <<>>)),
      Obj(2, 2, << Bstr8(<< Sub("online", 4), Sub("state", 4) >>) >>),
      WithConstraints(
        WithExtra(Obj(70, 5, << Fld("uint16", "file_handle"),
                                LenFld("bytearray", "file_data", "file_data_len", 0, TRUE) >>),
                  << Fld("uint8", "file_data_len") >>),
        << [key |-> "require_size_prefix", val |-> 1] >>),
      \* a key outside valid_keys
      WithKey(Obj(4, 1, << Fld("uint8", "value") >>), "comment"),
      \* a field key outside valid_field_keys, in the first field
      Obj(4, 2, << [Fld("uint8", "value") EXCEPT !.keys = @ \cup {"units"}] >>),
      \* the same, in a field after one with len_from_prefix
      WithExtra(Obj(4, 3, << LenFld("bytearray", "data", "data_len", 0, TRUE),
                             [Fld("uint8", "value") EXCEPT !.keys = @ \cup {"units"}] >>),
                << Fld("uint8", "data_len") >>),
      \* bit-field groups whose widths sum to 7 and to 9
      Obj(5, 1, << Bstr8(<< Sub("a", 4), Sub("b", 2), Sub("c", 1) >>) >>),
      WithExtra(Obj(5, 2, << LenFld("bytearray", "data", "data_len", 0, TRUE),
                             Bstr8(<< Sub("a", 7), Sub("b", 2) >>) >>),
                << Fld("uint8", "data_len") >>),
      \* widths that sum to 8 with a width the decoder template has no mask for
      Obj(5, 3, << Bstr8(<< Sub("a", 3), Sub("b", 5) >>) >>),
      \* a constraint key the decoder template does not handle
      WithConstraints(Obj(6, 1, << Fld("uint8", "value") >>),
                      << [key |-> "require_index_prefix", val |-> 1] >>),
      \* a field type and an extra-field type outside the supported subsets
      Obj(6, 2, << Fld("int8", "value") >>),
      WithExtra(Obj(6, 3, << Fld("uint8", "value") >>), << Fld("int16", "aux") >>) }

Schemas == UNION {[1..n -> SchemaEntries] : n \in 0..MaxSchema}

GenInit ==
    /\ DecIdle /\ BitIdle /\ PrIdle
    /\ schema \in Schemas
    /\ gpc = "preprocess" /\ gi = 1 /\ objects = <<>>
    /\ files = [f \in Targets |-> Original]
    /\ exit_status = -1

\* definitions["objects"] = map(preprocess_object, definitions["objects"]):
\* one call per entry; None is kept in the list until main filters it.
MapPreprocess ==
    /\ gpc = "preprocess"
    /\ gi <= Len(schema)
    /\ LET r == preprocess_object(schema[gi]) IN
       IF r \in {"exit", "assert"}
       THEN /\ exit_status' = 1
            /\ gpc' = "exited"
            /\ UNCHANGED << gi, objects >>
       ELSE /\ objects' = Append(objects,
                 [none |-> (r = "none"),
                  obj |-> [schema[gi] EXCEPT !._track_offset = (r = "track")]])
            /\ gi' = gi + 1
            /\ UNCHANGED << gpc, exit_status >>
    /\ UNCHANGED << schema, files, decvars, bitvars, prvars >>

IsImplemented(e) == ~e.none

\* definitions["objects"] = [obj for obj in definitions["objects"] if obj != None]
MainFilter ==
    /\ gpc = "preprocess"
    /\ gi > Len(schema)
    /\ objects' = [k \in 1..Len(SelectSeq(objects, IsImplemented)) |->
                      SelectSeq(objects, IsImplemented)[k].obj]
    /\ gpc' = "structs"
    /\ UNCHANGED << schema, gi, files, exit_status, decvars, bitvars, prvars >>

gen_object_structs ==
    /\ gpc = "structs"
    /\ IF StructsRaise(objects)
       THEN /\ exit_status' = 1 /\ gpc' = "exited"
            /\ files' = files
       ELSE /\ files' = [files EXCEPT !["app-layer-dnp3-objects.h"] = Written(StructsText(objects))]
            /\ gpc' = "decoders"
            /\ exit_status' = exit_status
    /\ UNCHANGED << schema, gi, objects, decvars, bitvars, prvars >>

gen_object_decoders ==
    /\ gpc = "decoders"
    /\ IF DecodersRaise(objects)
       THEN /\ exit_status' = 1 /\ gpc' = "exited"
            /\ files' = files
       ELSE /\ files' = [files EXCEPT !["app-layer-dnp3-objects.c"] = Written(DecodersText(objects))]
            /\ gpc' = "lua"
            /\ exit_status' = exit_status
    /\ UNCHANGED << schema, gi, objects, decvars, bitvars, prvars >>

\* generate(template, filename, context): render, then open and write.
generate(stage, filename, text, after) ==
    /\ gpc = stage
    /\ IF BindingRaise(objects)
       THEN /\ exit_status' = 1 /\ gpc' = "exited"
            /\ files' = files
       ELSE /\ files' = [files EXCEPT ![filename] = Written(text)]
            /\ gpc' = after
            /\ exit_status' = exit_status
    /\ UNCHANGED << schema, gi, objects, decvars, bitvars, prvars >>

GenerateLua == generate("lua", "util-lua-dnp3-objects.c", LuaText(objects), "json")

GenerateJson == generate("json", "output-json-dnp3-objects.c", JsonText(objects), "return")

\* sys.exit(main()): main returns None, the status is 0.
MainReturn ==
    /\ gpc = "return"
    /\ exit_status' = 0
    /\ gpc' = "exited"
    /\ UNCHANGED << schema, gi, objects, files, decvars, bitvars, prvars >>

GenNext ==
    \/ MapPreprocess \/ MainFilter \/ gen_object_structs \/ gen_object_decoders
    \/ GenerateLua \/ GenerateJson \/ MainReturn

SpecGen == GenInit /\ [][GenNext]_vars

(* ------------------- bit-field extraction of one octet ------------------ *)
SubNames == << "b1", "b2", "b3", "b4", "b5", "b6", "b7", "b8" >>

\* Width lists of bit-field groups: widths the template has a mask for.
WidthLists ==
    { << 4, 4 >>, << 1, 1, 2, 4 >>, << 7, 1 >>, << 1, 7 >>, << 2, 2, 4 >>,
      << 4, 2, 2 >>, << 1, 1, 1, 1, 1, 1, 2 >>, << 1, 1, 1, 1, 1, 1, 1, 1 >>,
      << 2, 4 >>, << 7, 2 >> }

BitGroup(ws) == Bstr8([k \in 1..Len(ws) |-> Sub(SubNames[k], ws[k])])

BitInit ==
    /\ DecIdle /\ GenIdle /\ PrIdle
    /\ bpc = "read"
    /\ \E ws \in WidthLists : bfield = BitGroup(ws)
    /\ boctet \in 0..255
    /\ bk = 1
    /\ bvals = <<>>

\* object->name = (octet >> shift) & mask: the bk-th rendered assignment.
BitAssign ==
    /\ bpc = "read"
    /\ LET a == Bstr8Render(bfield.fields, 0)[bk] IN
       bvals' = Append(bvals, Extract(boctet, a.shift, a.width))
    /\ bk' = bk + 1
    /\ bpc' = IF bk = Len(bfield.fields) THEN "done" ELSE "read"
    /\ UNCHANGED << bfield, boctet, decvars, genvars, prvars >>

BitNext == BitAssign

SpecBits == BitInit /\ [][BitNext]_vars

(* ---------------------------- qa/prscript.py ---------------------------- *)
\* BUILDERS_LIST of a docker run, cut to the first MaxBuilders builders.
BUILDERS_LIST ==
    SubSeq(<< "build", "clang", "debug", "features", "profiling", "pcaps" >>, 1, MaxBuilders)

\* What FindBuild returns: -1 for a pending build, -2 for no build, else
\* the number of the current or last cached build (0 stands for a number).
FindResults == {-1, -2, 0}

\* The script from "buildids = {}" on.  The builds run on the buildbot: a
\* build the script finds has some steps left or is finished, with a text
\* that says successful or not.
PrInit ==
    /\ DecIdle /\ GenIdle /\ BitIdle
    /\ found \in [Range(BUILDERS_LIST) -> FindResults]
    /\ running \in [Range(BUILDERS_LIST) -> 0..MaxSteps]
    /\ successful \in [Range(BUILDERS_LIST) -> BOOLEAN]
    /\ \A b \in Range(BUILDERS_LIST) : found[b] # 0 => (running[b] = 0 /\ ~successful[b])
    /\ ppc = "find" /\ bi = 1 /\ buildids = {} /\ waited = {}
    /\ build = "" /\ res = 0 /\ status = 0

\* for build in BUILDERS_LIST: buildid = FindBuild(...); one iteration.
FindBuild ==
    /\ ppc = "find"
    /\ bi <= Len(BUILDERS_LIST)
    /\ LET buildid == found[BUILDERS_LIST[bi]] IN
       IF buildid = -1
       THEN /\ bi' = bi + 1
            /\ UNCHANGED << buildids, status, ppc >>
       ELSE IF buildid = -2
       THEN /\ status' = 0 /\ ppc' = "exited"
            /\ UNCHANGED << buildids, bi >>
       ELSE /\ buildids' = buildids \cup {BUILDERS_LIST[bi]}
            /\ bi' = bi + 1
            /\ UNCHANGED << status, ppc >>
    /\ UNCHANGED << found, running, successful, waited, build, res, decvars, genvars, bitvars >>

\* if len(buildids): ... else: sys.exit(0); res = 0
CheckTracked ==
    /\ ppc = "find"
    /\ bi > Len(BUILDERS_LIST)
    /\ IF buildids # {}
       THEN /\ res' = 0 /\ ppc' = "wait" /\ status' = status
       ELSE /\ status' = 0 /\ ppc' = "exited" /\ res' = res
    /\ UNCHANGED << found, running, successful, bi, buildids, waited, build,
                    decvars, genvars, bitvars >>

\* for build in buildids: res = WaitForBuildResult(...): the next key of the
\* dictionary, in whatever order it iterates; the call starts with res = 1.
WaitForBuildResult ==
    /\ ppc = "wait"
    /\ \E b \in buildids \ waited :
         /\ build' = b
         /\ res' = 1
         /\ ppc' = "poll"
    /\ UNCHANGED << found, running, successful, bi, buildids, waited, status,
                    decvars, genvars, bitvars >>

\* if json_result["currentStep"]: return 1
\* if 'successful' in json_result["text"]: return 0
\* return -1
BuildStatus(steps, text) == IF steps > 0 THEN 1 ELSE IF text THEN 0 ELSE -1

\* res = GetBuildStatus(...) inside the while loop, and, when the build is
\* over, the return of res to the assignment in the for loop.
GetBuildStatus ==
    /\ ppc = "poll"
    /\ res' = BuildStatus(running[build], successful[build])
    /\ IF BuildStatus(running[build], successful[build]) = 1
       THEN /\ ppc' = "sleep" /\ waited' = waited
       ELSE /\ ppc' = "wait" /\ waited' = waited \cup {build}
    /\ UNCHANGED << found, running, successful, bi, buildids, build, status,
                    decvars, genvars, bitvars >>

\* time.sleep(10)
Sleep ==
    /\ ppc = "sleep"
    /\ ppc' = "poll"
    /\ UNCHANGED << found, running, successful, bi, buildids, waited, build, res,
                    status, decvars, genvars, bitvars >>

\* The buildbot finishes a step of a build.
BuildStep ==
    /\ ppc \in {"find", "wait", "poll", "sleep"}
    /\ \E b \in Range(BUILDERS_LIST) :
         /\ running[b] > 0
         /\ running' = [running EXCEPT ![b] = @ - 1]
    /\ UNCHANGED << ppc, found, successful, bi, buildids, waited, build, res,
                    status, decvars, genvars, bitvars >>

\* if res == 0: sys.exit(0) else: sys.exit(-1), after the for loop.
PrExit ==
    /\ ppc = "wait"
    /\ waited = buildids
    /\ status' = IF res = 0 THEN 0 ELSE -1
    /\ ppc' = "exited"
    /\ UNCHANGED << found, running, successful, bi, buildids, waited, build, res,
                    decvars, genvars, bitvars >>

PrNext ==
    \/ FindBuild \/ CheckTracked \/ WaitForBuildResult \/ GetBuildStatus
    \/ Sleep \/ BuildStep \/ PrExit

SpecPr == PrInit /\ [][PrNext]_vars

(* ------------------------------ claims ---------------------------------- *)
Known == << group, variation >> \in KnownPairs
RecordRun == sel # 0 /\ ~Objects[sel].packed
PackedRun == sel # 0 /\ Objects[sel].packed

\* C1: DNP3DecodeObject returns the unknown-object signal when its pair is
\* no object of the model, and then has touched neither the cursor nor the
\* point list; it returns malformed exactly when the selected routine
\* returned failure and ok exactly when it returned success; it returns
\* nothing else.
C1_Dispatch ==
    /\ signal \in {"none", "ok", "unknown_object", "malformed"}
    /\ (~Known /\ pc # "dispatch") =>
          /\ pc = "done" /\ signal = "unknown_object"
          /\ pos = 0 /\ len = args.len /\ points = <<>> /\ heap = {} /\ ub = {}
    /\ pc = "done" =>
          /\ signal # "none"
          /\ signal = "unknown_object" <=> ~Known
          /\ signal = "malformed" <=> (Known /\ rc = 0)
          /\ signal = "ok" <=> (Known /\ rc # 0)

\* A known pair whose routine failed after it had appended a point.
C1_Witness ==
    pc = "done" /\ Known /\ signal = "malformed" /\ rc = 0 /\ Len(points) > 0

\* C3: in the record strategy the appended points are the records that
\* decoded before the first failure, in wire order: the k-th has index
\* start+k-1, the prefix code and its decoded prefix; a record whose bytes
\* are not all in the buffer is never appended; the routine returns success
\* iff all count records were appended.
C3_RecordPoints ==
    RecordRun =>
       /\ Len(points) <= args.count
       /\ \A k \in 1..Len(points) :
             /\ points[k].index = start + (k - 1)
             /\ points[k].prefix_code = prefix_code
       /\ points # <<>> =>
             points[1].prefix = LE(SubSeq(buf, 1, PrefixWidth(prefix_code)))
       /\ (pc = "rec_loop" /\ points # <<>>) => pos <= Len(buf)
       /\ (pc = "done" /\ ConstraintsHold(Cur, prefix_code)) =>
             (rc = 1 <=> Len(points) = args.count)

\* C4: the record decoder never consumes more bytes than remain: the
\* remaining length is the buffer length less the bytes consumed, never
\* below zero, and nothing is read from past the end of the buffer.
C4_NeverOverConsumes ==
    RecordRun =>
       /\ pos <= Len(buf)
       /\ len = Len(buf) - pos
       /\ "overread" \notin ub

ByteArrayIds(o, data) ==
    {data.vals[o.fields[k].name].id :
        k \in {m \in 1..Len(o.fields) : o.fields[m].type = "bytearray"}} \ {0}

OwnedByPoints ==
    UNION {{points[k].data.id} \cup ByteArrayIds(Cur, points[k].data) : k \in 1..Len(points)}

\* C5: when a record decoder returns failure, every allocation made for
\* the record it was building has been released: what is still allocated
\* belongs to a point of the output list.
C5_NoLeakOnFailure ==
    (RecordRun /\ pc \in {"return", "done"} /\ rc = 0) => heap \subseteq OwnedByPoints

LenFromPrefixFields(o) ==
    {o.fields[k] : k \in {m \in 1..Len(o.fields) : o.fields[m].len_from_prefix}}

\* C6: the runtime length a len_from_prefix field stores in its len_field
\* never exceeds the decoded prefix, and a record read to its end has
\* consumed exactly prefix bytes after its prefix.
C6_LenFromPrefix ==
    RecordRun =>
       /\ \A f \in LenFromPrefixFields(Cur) :
             /\ object.id # 0 => object.vals[f.len_field] <= prefix
             /\ \A k \in 1..Len(points) :
                   points[k].data.vals[f.len_field] <= points[k].prefix
       /\ (pc = "rec_add" /\ Cur._track_offset) => offset - len = prefix

\* C7: a packed decode that returns success has appended exactly count
\* points, with indices start..start+count-1, the k-th holding
\* (octet >> shift) & mask of byte floor(k*width/8) at shift (k*width) mod 8.
C7_PackedPoints ==
    (PackedRun /\ pc = "done" /\ signal = "ok") =>
       /\ Len(points) = args.count
       /\ \A k \in 1..Len(points) :
             LET w == Cur.fields[1].width
                 bit == (k - 1) * w IN
             /\ points[k].index = start + (k - 1)
             /\ points[k].data.vals[Cur.fields[1].name] =
                   (buf[PrefixWidth(prefix_code) + (bit \div 8) + 1] \div (2^(bit % 8))) % (2^w)

Widths(f) == [k \in 1..Len(f.fields) |-> f.fields[k].width]

\* C8: subfield i of a bit-field group receives (octet >> s_i) & (2^w_i - 1)
\* with s_i the sum of the widths before it; when the widths sum to 8 the
\* subfields recombine to the octet (0b10110100 split [4,4] gives 4 and 11).
C8_BitField ==
    /\ \A k \in 1..Len(bvals) :
          bvals[k] = (boctet \div (2^SeqSum(SubSeq(Widths(bfield), 1, k - 1))))
                     % (2^(bfield.fields[k].width))
    /\ (bpc = "done" /\ SeqSum(Widths(bfield)) = 8) =>
          SeqSum([k \in 1..Len(bvals) |->
                     bvals[k] * (2^SeqSum(SubSeq(Widths(bfield), 1, k - 1)))]) = boctet
    /\ (bpc = "done" /\ boctet = 180 /\ Widths(bfield) = << 4, 4 >>) => bvals = << 4, 11 >>

C8_Witness ==
    bpc = "done" /\ boctet = 180 /\ Widths(bfield) = << 4, 4 >> /\ bvals = << 4, 11 >>

(* ------------------------ claims: generation run ------------------------ *)
IsImplementedEntry(e) == "unimplemented" \notin e.keys

ImplementedPairs ==
    {PairOf(schema[k]) : k \in {m \in 1..Len(schema) : IsImplementedEntry(schema[m])}}

UnimplementedPairs ==
    {PairOf(schema[k]) : k \in {m \in 1..Len(schema) : ~IsImplementedEntry(schema[m])}}

NoDuplicates(seq) == \A a, b \in 1..Len(seq) : a # b => seq[a] # seq[b]

DecodersFile == files["app-layer-dnp3-objects.c"]

\* C2: for any schema, the pairs the emitted decode dispatch and release
\* routine handle are exactly the schema objects without an "unimplemented"
\* marker, each with one decode case and at most one release case, and an
\* unimplemented object appears in no emitted artifact.
C2_ExactlyOneCase ==
    ~DecodersFile.original =>
       /\ Range(DecodersFile.text.decode_cases) = ImplementedPairs
       /\ Range(DecodersFile.text.routines) = ImplementedPairs
       /\ Range(DecodersFile.text.free_cases) \subseteq ImplementedPairs
       /\ NoDuplicates(DecodersFile.text.decode_cases)
       /\ NoDuplicates(DecodersFile.text.routines)
       /\ NoDuplicates(DecodersFile.text.free_cases)
       /\ Range(DecodersFile.text.decode_cases) \cap UnimplementedPairs = {}
       /\ Range(files["app-layer-dnp3-objects.h"].text.structs) \cap UnimplementedPairs = {}

BadGroup(f) == f.type = "bstr8" /\ SeqSum(Widths(f)) # 8

\* An implemented entry the schema rules reject: a key outside the object
\* key set, or a field, at any position, with a key outside the field key
\* set or that is a bit-field group whose widths do not sum to 8.
InvalidEntry(e) ==
    /\ IsImplementedEntry(e)
    /\ \/ ~(e.keys \subseteq valid_keys)
       \/ \E m \in 1..Len(e.fields) :
             ~(e.fields[m].keys \subseteq valid_field_keys) \/ BadGroup(e.fields[m])

AllOriginal == \A f \in Targets : files[f].original

\* C9: a schema with an invalid implemented entry is rejected with nonzero
\* status before any emitter runs, so every bit-field group of the model
\* handed to the emitters sums to 8.
C9_ValidationRejects ==
    /\ (\E k \in 1..Len(schema) : InvalidEntry(schema[k])) =>
          /\ gpc \in {"preprocess", "exited"}
          /\ AllOriginal
          /\ gpc = "exited" => exit_status # 0
    /\ gpc \in {"structs", "decoders", "lua", "json", "return"} =>
          \A k \in 1..Len(objects) : \A m \in 1..Len(objects[k].fields) :
              ~BadGroup(objects[k].fields[m])

\* C10: a run that aborts with nonzero status has modified none of the four
\* target files.
C10_NoPartialOutput ==
    (gpc = "exited" /\ exit_status # 0) => AllOriginal

(* --------------------------- claims: release ---------------------------- *)
\* What a point of the output list owns: its storage instance and the
\* buffers of its byte-array fields.
PointIds(k) == {points[k].data.id} \cup ByteArrayIds(Cur, points[k].data)

ReleasedIds == UNION {PointIds(k) : k \in 1..fp}

PosIn(seq, x) == CHOOSE n \in 1..Len(seq) : seq[n] = x

\* C11: DNP3FreeObjectPoint, called once on each point of the list, frees
\* every non-null byte-array buffer of the point once and then the storage
\* instance once, and nothing else: nothing is freed twice, a point not yet
\* released keeps what it owns, and when every point of a successful decode
\* has been released no allocation is left.
C11_FreeOnce ==
    (pc = "done" /\ sel # 0) =>
       /\ NoDuplicates(freed)
       /\ "doublefree" \notin ub
       /\ ReleasedIds \cap heap = {}
       /\ ReleasedIds \subseteq Range(freed)
       /\ Len(freed) = Cardinality(ReleasedIds) + (IF object.id # 0 THEN 1 ELSE 0)
       /\ \A k \in 1..fp : \A b \in ByteArrayIds(Cur, points[k].data) :
             PosIn(freed, b) < PosIn(freed, points[k].data.id)
       /\ \A k \in (fp + 1)..Len(points) : PointIds(k) \subseteq heap
       /\ (signal = "ok" /\ fp = Len(points)) => heap = {}

\* Every point of a successful decode released, one of them with a buffer.
C11_Witness ==
    /\ pc = "done" /\ signal = "ok" /\ fp = Len(points) /\ fp > 0
    /\ \E k \in 1..fp : ByteArrayIds(Cur, points[k].data) # {}
    /\ heap = {}

(* ------------------------- claims: constraints -------------------------- *)
Constrained == sel # 0 /\ Cur.constraints # <<>>

\* C12: a decode of an object with constraints whose prefix code fails one
\* of them returns malformed and has left the cursor, the remaining
\* length and the point list as they were, with nothing allocated; when
\* the constraints hold the routine reaches its loop untouched, so a decode
\* of no points succeeds and a failure comes only from inside the loop.
C12_ConstraintFailure ==
    /\ (Constrained /\ ~ConstraintsHold(Cur, prefix_code)) =>
          /\ pos = 0 /\ len = args.len /\ points = <<>>
          /\ heap = {} /\ nextId = 1
          /\ pc = "done" => signal = "malformed"
    /\ (Constrained /\ RecordRun /\ ConstraintsHold(Cur, prefix_code)) =>
          /\ pc = "rec_error" => count # args.count
          /\ (pc = "done" /\ args.count = 0) => signal = "ok"

(* ---------------------- claims: fixed text buffers ---------------------- *)
CharArrayFields(o) ==
    {o.fields[k] : k \in {m \in 1..Len(o.fields) : o.fields[m].type = "chararray"}}

\* C13: a chararray field is written only inside its char name[size]
\* member: the bytes copied and the terminator at the runtime length stay
\* within indices 0..size-1, and a record whose runtime length does not
\* fit is never appended as a point.
C13_CharArrayWithinSize ==
    RecordRun =>
       /\ "overwrite" \notin ub
       /\ pc # "crashed"
       /\ \A f \in CharArrayFields(Cur) : \A k \in 1..Len(points) :
             points[k].data.vals[f.len_field] < f.size

(* ------------------------ claims: packed byte count --------------------- *)
\* Bytes that hold count points of the width of the selected packed object.
NeededBytes == (args.count * Cur.fields[1].width + 7) \div 8

\* The packed routine is at its error label because a byte read failed:
\* either no byte was read yet, or the inner loop over the last byte ended.
PackedReadFailed ==
    /\ pc = "pk_error" /\ object.id = 0
    /\ pos = PrefixWidth(prefix_code) + i
    /\ i = 0 \/ j >= 8 \/ count = 0

\* C14: the packed routine reads, after the prefix, exactly the
\* ceil(count*width/8) bytes that hold count points: it reads a byte only
\* while points remain to be produced, a read fails only when fewer than
\* that many bytes follow the prefix, and on success the cursor has
\* advanced by the prefix and exactly that many bytes.
C14_PackedExactBytes ==
    PackedRun =>
       /\ (pc = "pk_byte" /\ i < bytes) => count > 0
       /\ PackedReadFailed => args.len < PrefixWidth(prefix_code) + NeededBytes
       /\ (pc = "done" /\ signal = "ok") => pos = PrefixWidth(prefix_code) + NeededBytes

(* --------------------- claims: the two export backends ------------------ *)
\* The declared names of the fields of an object, a bit-field group
\* flattened to its subfields, in declaration order.
DeclaredNames(o) ==
    SeqCat([m \in 1..Len(o.fields) |->
              IF o.fields[m].type = "bstr8"
              THEN [n \in 1..Len(o.fields[m].fields) |-> o.fields[m].fields[n].name]
              ELSE << o.fields[m].name >>])

KeyedByName(keys, names) ==
    /\ Len(keys) = Len(names)
    /\ \A n \in 1..Len(keys) : keys[n].lit = "" /\ keys[n].name = names[n]

LuaFile == files["util-lua-dnp3-objects.c"]
JsonFile == files["output-json-dnp3-objects.c"]

\* C15: for every object of the model the scripting binding and the JSON
\* output emit one entry per field (bit-field groups flattened), keyed by
\* the declared name of the field, so both export the same keys.
C15_SameKeys ==
    (~LuaFile.original /\ ~JsonFile.original) =>
       \A k \in 1..Len(objects) :
          /\ KeyedByName(LuaFile.text.cases[k].keys, DeclaredNames(objects[k]))
          /\ KeyedByName(JsonFile.text.cases[k].keys, DeclaredNames(objects[k]))
          /\ LuaFile.text.cases[k].keys = JsonFile.text.cases[k].keys

(* --------------------------- claims: prscript --------------------------- *)
\* The script has left through the exit after the loop over buildids.
ExitedAfterWait == ppc = "exited" /\ waited # {}

\* C16: the script goes through every tracked build and leaves a build only
\* when it has no current step; after the loop it exits with status 0
\* exactly when every tracked build finished successful, in whatever order
\* the builds were waited for.
C16_ExitStatus ==
    /\ \A b \in waited : b \in buildids /\ running[b] = 0
    /\ ExitedAfterWait =>
          /\ waited = buildids
          /\ status = 0 <=> \A b \in buildids : successful[b]
          /\ status # 0 <=> \E b \in buildids : ~successful[b]

====
